---- MODULE Spec2Model ----
(***************************************************************************)
(* Request handlers of the blog application (blogicum/blog/views.py and    *)
(* blogicum/blog/mixins.py) as a state machine over the stored posts,      *)
(* comments and profiles, the framework cache and the clock.  One action   *)
(* per view; the response of the last request is kept in resp.             *)
(***************************************************************************)
EXTENDS Integers, Sequences, FiniteSets, TLC

\* ---------------------------------------------------------------- bounds
MaxPosts == 2
MaxComments == 2
MaxTime == 2
StartTime == 1

\* ---------------------------------------------------------------- domains
Users == {"u1", "u2"}
AnonymousUser == "anon"
Requesters == Users \cup {AnonymousUser}
Usernames == Users \cup {"ghost"}
Categories == {"c1", "c2"}
CategoryIsPublished == [c \in Categories |-> c = "c1"]
Dates == 0..MaxTime
PostIds == 1..MaxPosts
CommentIds == 1..MaxComments
CommentTexts == {"a", "b"}
ProfileNames == {"n1", "n2"}
CacheKeys == {"k"}
PostHandlers == {"delete", "form_valid"}
PostForms == [is_published : BOOLEAN, category : Categories, pub_date : Dates]

VARIABLES posts, comments, postSeq, commentSeq, profile, cache, now,
          indexNow, resp

vars == <<posts, comments, postSeq, commentSeq, profile, cache, now,
          indexNow, resp>>

\* ---------------------------------------------------------------- responses
\* A request and its answer: the view, the HTTP method, the requester, the
\* URL arguments (pid, cid, username; 0 or "" when the URL has none), whether
\* a valid form came with it, the status, the post a redirect names (to) and
\* the page of a list view.
Response(view, method, valid, user, pid, cid, username, status, to, list) ==
    [view |-> view, method |-> method, valid |-> valid, user |-> user, pid |-> pid,
     cid |-> cid, username |-> username, status |-> status, to |-> to, list |-> list]

NoResponse == Response("none", "", FALSE, "", 0, 0, "", "none", 0, <<>>)

IsAuthenticated(u) == u \in Users

\* ---------------------------------------------------------------- ORM helpers
Remove(f, k) == [x \in (DOMAIN f) \ {k} |-> f[x]]

Insert(f, k, v) == [x \in (DOMAIN f) \cup {k} |-> IF x = k THEN v ELSE f[x]]

\* post.comments: the comments whose foreign key is the post
PostComments(pid) == {c \in DOMAIN comments : comments[c].post = pid}

\* author.posts: the posts whose foreign key is the user
AuthorPosts(u) == {p \in DOMAIN posts : posts[p].author = u}

\* post.comments.all().delete()
DeleteComments(pid) == [c \in (DOMAIN comments) \ PostComments(pid) |-> comments[c]]

\* ---------------------------------------------------------------- querysets
\* The filter of create_queryset; t is the value timezone.now() had when
\* create_queryset ran.
Filtered(manager, t) ==
    {p \in manager : /\ posts[p].pub_date < t
                     /\ posts[p].is_published
                     /\ CategoryIsPublished[posts[p].category]}

\* Mutant: the filter is applied whatever filters says.
create_queryset_AlwaysFiltered(manager, filters, annotations, t) ==
    [rows |-> Filtered(manager, t), ordered |-> annotations]

create_queryset(manager, filters, annotations, t) ==
    [rows |-> IF filters THEN Filtered(manager, t) ELSE manager,
     ordered |-> annotations]

\* The page a queryset renders to: its rows, by pub_date descending when
\* ordered (rows of equal pub_date in any order).
Listings(qs) ==
    {s \in [1..Cardinality(qs.rows) -> qs.rows] :
        /\ \A i, j \in DOMAIN s : i # j => s[i] # s[j]
        /\ qs.ordered =>
             \A i, j \in DOMAIN s : i < j => posts[s[i]].pub_date >= posts[s[j]].pub_date}

\* ---------------------------------------------------------------- initial state
Init ==
    /\ posts = <<>>
    /\ comments = <<>>
    /\ postSeq = 0
    /\ commentSeq = 0
    /\ profile = [u \in Users |-> "n1"]
    /\ cache \in SUBSET CacheKeys
    /\ now = StartTime
    /\ indexNow = StartTime
    /\ resp = NoResponse

\* ---------------------------------------------------------------- clock
Tick ==
    /\ now < MaxTime
    /\ now' = now + 1
    /\ resp' = NoResponse
    /\ UNCHANGED <<posts, comments, postSeq, commentSeq, profile, cache, indexNow>>

\* ---------------------------------------------------------------- list views
\* IndexListView: the class attribute queryset was built once, when the
\* module was imported (indexNow); its rows are read at request time.
IndexListView(u) ==
    /\ \E page \in Listings(create_queryset(DOMAIN posts, TRUE, TRUE, indexNow)) :
          resp' = Response("index", "GET", FALSE, u, 0, 0, "", "ok", 0, page)
    /\ UNCHANGED <<posts, comments, postSeq, commentSeq, profile, cache, now, indexNow>>

ProfileListView(u, username) ==
    /\ IF username \notin Users
         THEN resp' = Response("profile", "GET", FALSE, u, 0, 0, username, "not_found", 0, <<>>)
         ELSE \E page \in Listings(IF u # username
                                     THEN create_queryset(AuthorPosts(username), TRUE, TRUE, now)
                                     ELSE create_queryset(AuthorPosts(username), FALSE, TRUE, now)) :
                 resp' = Response("profile", "GET", FALSE, u, 0, 0, username, "ok", 0, page)
    /\ UNCHANGED <<posts, comments, postSeq, commentSeq, profile, cache, now, indexNow>>

\* Mutant: a post dated exactly now is hidden too.
Hidden_AtNow(u, pid) ==
    /\ posts[pid].author # u
    /\ \/ ~posts[pid].is_published
       \/ ~CategoryIsPublished[posts[pid].category]
       \/ posts[pid].pub_date >= now

\* PostDetailView.get_object
Hidden(u, pid) ==
    /\ posts[pid].author # u
    /\ \/ ~posts[pid].is_published
       \/ ~CategoryIsPublished[posts[pid].category]
       \/ posts[pid].pub_date > now

PostDetailView(u, pid) ==
    /\ resp' = IF pid \notin DOMAIN posts
                 THEN Response("detail", "GET", FALSE, u, pid, 0, "", "not_found", 0, <<>>)
               ELSE IF Hidden(u, pid)
                 THEN Response("detail", "GET", FALSE, u, pid, 0, "", "not_found", 0, <<>>)
               ELSE Response("detail", "GET", FALSE, u, pid, 0, "", "ok", pid, <<>>)
    /\ UNCHANGED <<posts, comments, postSeq, commentSeq, profile, cache, now, indexNow>>

\* ---------------------------------------------------------------- posts
\* PostCreateView: LoginRequiredMixin.dispatch, then CreateView.get / post
\* with form_valid setting the author.
PostCreateView(u, method, valid, form) ==
    /\ (IsAuthenticated(u) /\ method = "POST" /\ valid) => postSeq < MaxPosts
    /\ IF ~IsAuthenticated(u)
         THEN /\ resp' = Response("post_create", method, valid, u, 0, 0, "", "redirect_login", 0, <<>>)
              /\ UNCHANGED <<posts, postSeq>>
       ELSE IF method = "GET" \/ ~valid
         THEN /\ resp' = Response("post_create", method, valid, u, 0, 0, "", "ok", 0, <<>>)
              /\ UNCHANGED <<posts, postSeq>>
       ELSE /\ posts' = Insert(posts, postSeq + 1,
                               [author |-> u, is_published |-> form.is_published,
                                category |-> form.category, pub_date |-> form.pub_date])
            /\ postSeq' = postSeq + 1
            /\ resp' = Response("post_create", method, valid, u, postSeq + 1, 0, u, "redirect_profile", 0, <<>>)
    /\ UNCHANGED <<comments, commentSeq, profile, cache, now, indexNow>>

\* Mutant: only an anonymous requester is turned away.
PostUpdateDenied_AnyUser(u, pid) == posts[pid].author # u /\ ~IsAuthenticated(u)

\* CommonPostMixin.dispatch: post.author != request.user
PostUpdateDenied(u, pid) == posts[pid].author # u

\* PostUpdateView: CommonPostMixin.dispatch (lookup, author check), then
\* LoginRequiredMixin.dispatch, then UpdateView.get / post.
PostUpdateView(u, pid, method, valid, form) ==
    /\ IF pid \notin DOMAIN posts
         THEN /\ resp' = Response("post_update", method, valid, u, pid, 0, "", "not_found", 0, <<>>)
              /\ UNCHANGED posts
       ELSE IF PostUpdateDenied(u, pid)
         THEN /\ resp' = Response("post_update", method, valid, u, pid, 0, "", "redirect_detail", pid, <<>>)
              /\ UNCHANGED posts
       ELSE IF ~IsAuthenticated(u)
         THEN /\ resp' = Response("post_update", method, valid, u, pid, 0, "", "redirect_login", 0, <<>>)
              /\ UNCHANGED posts
       ELSE IF method = "GET" \/ ~valid
         THEN /\ resp' = Response("post_update", method, valid, u, pid, 0, "", "ok", 0, <<>>)
              /\ UNCHANGED posts
       ELSE /\ posts' = [posts EXCEPT ![pid] =
                            [author |-> posts[pid].author, is_published |-> form.is_published,
                             category |-> form.category, pub_date |-> form.pub_date]]
            /\ resp' = Response("post_update", method, valid, u, pid, 0, "", "redirect_detail", pid, <<>>)
    /\ UNCHANGED <<comments, postSeq, commentSeq, profile, cache, now, indexNow>>

\* PostDeleteView.delete: the comments of the post, the cache, then
\* DeletionMixin.delete removes the post itself.
PostDeleteView_delete(pid) ==
    /\ comments' = DeleteComments(pid)
    /\ cache' = {}
    /\ posts' = Remove(posts, pid)

\* BaseDeleteView.form_valid: removes the post; the rows that reference it
\* go with it.
DeleteView_form_valid(pid) ==
    /\ posts' = Remove(posts, pid)
    /\ comments' = DeleteComments(pid)
    /\ UNCHANGED cache

\* PostDeleteView.dispatch: self.object.author != request.user
PostDeleteDenied(u, pid) == posts[pid].author # u

\* PostDeleteView: its own dispatch (lookup, author check), then
\* LoginRequiredMixin.dispatch, then DeleteView.get / post / delete.  Which
\* method a POST reaches is the framework's choice (handler): DeletionMixin.post
\* calls self.delete, BaseDeleteView.post calls self.form_valid.
PostDeleteView(u, pid, method, handler) ==
    /\ IF pid \notin DOMAIN posts
         THEN /\ resp' = Response("post_delete", method, FALSE, u, pid, 0, "", "not_found", 0, <<>>)
              /\ UNCHANGED <<posts, comments, cache>>
       ELSE IF PostDeleteDenied(u, pid)
         THEN /\ resp' = Response("post_delete", method, FALSE, u, pid, 0, "", "forbidden", 0, <<>>)
              /\ UNCHANGED <<posts, comments, cache>>
       ELSE IF ~IsAuthenticated(u)
         THEN /\ resp' = Response("post_delete", method, FALSE, u, pid, 0, "", "redirect_login", 0, <<>>)
              /\ UNCHANGED <<posts, comments, cache>>
       ELSE IF method = "GET"
         THEN /\ resp' = Response("post_delete", method, FALSE, u, pid, 0, "", "ok", 0, <<>>)
              /\ UNCHANGED <<posts, comments, cache>>
       ELSE /\ IF method = "POST" /\ handler = "form_valid"
                 THEN DeleteView_form_valid(pid)
                 ELSE PostDeleteView_delete(pid)
            /\ resp' = Response("post_delete", method, FALSE, u, pid, 0, "", "redirect_index", 0, <<>>)
    /\ UNCHANGED <<postSeq, commentSeq, profile, now, indexNow>>

\* ---------------------------------------------------------------- comments
\* Mutant: the comment is saved under the post's author.
NewComment_PostAuthor(u, pid, text) == [author |-> posts[pid].author, post |-> pid, text |-> text]

\* The comment add_comment saves: the form's text, the requester, the post.
NewComment(u, pid, text) == [author |-> u, post |-> pid, text |-> text]

\* add_comment: login_required, then the post lookup, then the form.
add_comment(u, pid, valid, text) ==
    /\ (IsAuthenticated(u) /\ pid \in DOMAIN posts /\ valid) => commentSeq < MaxComments
    /\ IF ~IsAuthenticated(u)
         THEN /\ resp' = Response("add_comment", "POST", valid, u, pid, 0, "", "redirect_login", 0, <<>>)
              /\ UNCHANGED <<comments, commentSeq>>
       ELSE IF pid \notin DOMAIN posts
         THEN /\ resp' = Response("add_comment", "POST", valid, u, pid, 0, "", "not_found", 0, <<>>)
              /\ UNCHANGED <<comments, commentSeq>>
       ELSE IF ~valid
         THEN /\ resp' = Response("add_comment", "POST", valid, u, pid, 0, "", "redirect_detail", pid, <<>>)
              /\ UNCHANGED <<comments, commentSeq>>
       ELSE /\ comments' = Insert(comments, commentSeq + 1, NewComment(u, pid, text))
            /\ commentSeq' = commentSeq + 1
            /\ resp' = Response("add_comment", "POST", valid, u, pid, commentSeq + 1, "", "redirect_detail", pid, <<>>)
    /\ UNCHANGED <<posts, postSeq, profile, cache, now, indexNow>>

\* CommentMixin.dispatch: comment.author != request.user
CommentUpdateDenied(u, cid) == comments[cid].author # u

\* CommentUpdateView: CommentMixin.dispatch (lookup, author check), then
\* LoginRequiredMixin.dispatch, then UpdateView.get / post; pid is the
\* post_id of the URL.
CommentUpdateView(u, pid, cid, method, valid, text) ==
    /\ IF cid \notin DOMAIN comments
         THEN /\ resp' = Response("comment_update", method, valid, u, pid, cid, "", "not_found", 0, <<>>)
              /\ UNCHANGED comments
       ELSE IF CommentUpdateDenied(u, cid)
         THEN /\ resp' = Response("comment_update", method, valid, u, pid, cid, "", "redirect_detail",
                                  comments[cid].post, <<>>)
              /\ UNCHANGED comments
       ELSE IF ~IsAuthenticated(u)
         THEN /\ resp' = Response("comment_update", method, valid, u, pid, cid, "", "redirect_login", 0, <<>>)
              /\ UNCHANGED comments
       ELSE IF method = "GET" \/ ~valid
         THEN /\ resp' = Response("comment_update", method, valid, u, pid, cid, "", "ok", 0, <<>>)
              /\ UNCHANGED comments
       ELSE /\ comments' = [comments EXCEPT ![cid].text = text]
            /\ resp' = Response("comment_update", method, valid, u, pid, cid, "", "redirect_detail", pid, <<>>)
    /\ UNCHANGED <<posts, postSeq, commentSeq, profile, cache, now, indexNow>>

\* Mutant: only an anonymous requester is turned away.
CommentDeleteDenied_AnyUser(u, cid) == comments[cid].author # u /\ ~IsAuthenticated(u)

\* CommentDeleteView.dispatch: comment.author != request.user
CommentDeleteDenied(u, cid) == comments[cid].author # u

\* CommentDeleteView: its own dispatch (lookup, author check), then
\* LoginRequiredMixin.dispatch, then DeleteView.get / post / delete.
CommentDeleteView(u, pid, cid, method) ==
    /\ IF cid \notin DOMAIN comments
         THEN /\ resp' = Response("comment_delete", method, FALSE, u, pid, cid, "", "not_found", 0, <<>>)
              /\ UNCHANGED comments
       ELSE IF CommentDeleteDenied(u, cid)
         THEN /\ resp' = Response("comment_delete", method, FALSE, u, pid, cid, "", "forbidden", 0, <<>>)
              /\ UNCHANGED comments
       ELSE IF ~IsAuthenticated(u)
         THEN /\ resp' = Response("comment_delete", method, FALSE, u, pid, cid, "", "redirect_login", 0, <<>>)
              /\ UNCHANGED comments
       ELSE IF method = "GET"
         THEN /\ resp' = Response("comment_delete", method, FALSE, u, pid, cid, "", "ok", 0, <<>>)
              /\ UNCHANGED comments
       ELSE /\ comments' = Remove(comments, cid)
            /\ resp' = Response("comment_delete", method, FALSE, u, pid, cid, "", "redirect_detail", pid, <<>>)
    /\ UNCHANGED <<posts, postSeq, commentSeq, profile, cache, now, indexNow>>

\* ---------------------------------------------------------------- profile
\* ProfileUpdateView: LoginRequiredMixin.dispatch, then UpdateView on
\* request.user.
ProfileUpdateView(u, method, valid, name) ==
    /\ IF ~IsAuthenticated(u)
         THEN /\ resp' = Response("profile_update", method, valid, u, 0, 0, "", "redirect_login", 0, <<>>)
              /\ UNCHANGED profile
       ELSE IF method = "GET" \/ ~valid
         THEN /\ resp' = Response("profile_update", method, valid, u, 0, 0, "", "ok", 0, <<>>)
              /\ UNCHANGED profile
       ELSE /\ profile' = [profile EXCEPT ![u] = name]
            /\ resp' = Response("profile_update", method, valid, u, 0, 0, u, "redirect_profile", 0, <<>>)
    /\ UNCHANGED <<posts, comments, postSeq, commentSeq, cache, now, indexNow>>

\* ---------------------------------------------------------------- requests
\* What a form view can be sent: a GET, a POST the form rejects, or a POST
\* with one of the valid forms.
FormRequests(forms) ==
    {[method |-> "GET", valid |-> FALSE, form |-> CHOOSE f \in forms : TRUE],
     [method |-> "POST", valid |-> FALSE, form |-> CHOOSE f \in forms : TRUE]}
    \cup {[method |-> "POST", valid |-> TRUE, form |-> f] : f \in forms}

\* What a delete view can be sent; handler matters to a POST only.
DeleteRequests ==
    {[method |-> "GET", handler |-> "delete"],
     [method |-> "DELETE", handler |-> "delete"]}
    \cup {[method |-> "POST", handler |-> h] : h \in PostHandlers}

DeleteMethods == {r.method : r \in DeleteRequests}

\* The forms the write-side specifications submit: one category and one
\* date, published or not.
WriteForms == {f \in PostForms : f.category = "c1" /\ f.pub_date = StartTime}

Index == \E u \in Requesters : IndexListView(u)
Profile == \E u \in Requesters, username \in Usernames : ProfileListView(u, username)
Detail == \E u \in Requesters, pid \in PostIds : PostDetailView(u, pid)
PostCreate ==
    \E u \in Requesters, r \in FormRequests(PostForms) :
        PostCreateView(u, r.method, r.valid, r.form)
PostUpdate ==
    \E u \in Requesters, pid \in PostIds, r \in FormRequests(PostForms) :
        PostUpdateView(u, pid, r.method, r.valid, r.form)
PostCreateW ==
    \E u \in Requesters, r \in FormRequests(WriteForms) :
        PostCreateView(u, r.method, r.valid, r.form)
PostCreateP ==
    \E u \in Requesters, r \in FormRequests({f \in WriteForms : f.is_published}) :
        PostCreateView(u, r.method, r.valid, r.form)
PostUpdateW ==
    \E u \in Requesters, pid \in PostIds, r \in FormRequests(WriteForms) :
        PostUpdateView(u, pid, r.method, r.valid, r.form)
PostDelete ==
    \E u \in Requesters, pid \in PostIds, r \in DeleteRequests :
        PostDeleteView(u, pid, r.method, r.handler)
AddComment ==
    \E u \in Requesters, pid \in PostIds, valid \in BOOLEAN, text \in CommentTexts :
        add_comment(u, pid, valid, text)
AddCommentW ==
    \E u \in Requesters, pid \in PostIds, valid \in BOOLEAN :
        add_comment(u, pid, valid, "a")
CommentUpdate ==
    \E u \in Requesters, pid \in PostIds, cid \in CommentIds, r \in FormRequests(CommentTexts) :
        CommentUpdateView(u, pid, cid, r.method, r.valid, r.form)
CommentDelete ==
    \E u \in Requesters, pid \in PostIds, cid \in CommentIds, method \in DeleteMethods :
        CommentDeleteView(u, pid, cid, method)
ProfileUpdate ==
    \E u \in Requesters, r \in FormRequests(ProfileNames) :
        ProfileUpdateView(u, r.method, r.valid, r.form)

\* ---------------------------------------------------------------- specifications
Next ==
    \/ Tick
    \/ Index
    \/ Profile
    \/ Detail
    \/ PostCreate
    \/ PostUpdate
    \/ PostDelete
    \/ AddComment
    \/ CommentUpdate
    \/ CommentDelete
    \/ ProfileUpdate

Spec == Init /\ [][Next]_vars

\* Posts over time and the three views that read them.
NextView ==
    \/ Tick
    \/ Index
    \/ Profile
    \/ Detail
    \/ PostCreate
    \/ PostUpdate
    \/ PostDelete

SpecView == Init /\ [][NextView]_vars

\* The post views, with comments to lose and the profile form.
NextPost ==
    \/ PostCreateW
    \/ PostUpdateW
    \/ PostDelete
    \/ AddCommentW
    \/ ProfileUpdate

SpecPost == Init /\ [][NextPost]_vars

\* The comment views, on published posts that are created and stay.
NextComment ==
    \/ PostCreateP
    \/ AddComment
    \/ CommentUpdate
    \/ CommentDelete

SpecComment == Init /\ [][NextComment]_vars

\* ---------------------------------------------------------------- claims
\* A post is public at time t: published, in a published category, dated
\* before t.
PublicAt(p, t) ==
    /\ posts[p].is_published
    /\ CategoryIsPublished[posts[p].category]
    /\ posts[p].pub_date < t

\* The posts a page lists.
Listed(page) == {page[i] : i \in DOMAIN page}

NoRepeats(page) == \A i, j \in DOMAIN page : i # j => page[i] # page[j]

NewestFirst(page) ==
    \A i, j \in DOMAIN page : i < j => posts[page[i]].pub_date >= posts[page[j]].pub_date

\* C1: a request to PostUpdateView or PostDeleteView whose user is not the
\* author of the post it names (anonymous included, a missing post included)
\* leaves the posts and the comments as they were; and a post changes or
\* disappears only in a step of one of these two views, requested for that
\* post by its author.
C1_OnlyAuthorChangesPost ==
    [][/\ (/\ resp'.view \in {"post_update", "post_delete"}
           /\ \/ resp'.pid \notin DOMAIN posts
              \/ posts[resp'.pid].author # resp'.user)
          => (posts' = posts /\ comments' = comments)
       /\ \A p \in DOMAIN posts :
            (p \notin DOMAIN posts' \/ posts'[p] # posts[p])
            => /\ resp'.view \in {"post_update", "post_delete"}
               /\ resp'.pid = p
               /\ resp'.user = posts[p].author]_vars

\* C1 witness: a logged-in user who is not the author has posted an edit form
\* for a post that has comments, and was sent to the post's page.
C1_Witness ==
    /\ resp.view = "post_update"
    /\ resp.method = "POST"
    /\ resp.valid
    /\ resp.status = "redirect_detail"
    /\ resp.pid \in DOMAIN posts
    /\ IsAuthenticated(resp.user)
    /\ posts[resp.pid].author # resp.user
    /\ PostComments(resp.pid) # {}

\* C2: a request to CommentUpdateView or CommentDeleteView whose user is not
\* the comment's author leaves every comment as it was; the edit attempt is
\* answered with a redirect to the page of the comment's own post, the delete
\* attempt with forbidden; and a comment changes or disappears only in a step
\* of one of these two views, requested for that comment by its author.
C2_OnlyAuthorChangesComment ==
    [][/\ (/\ resp'.view \in {"comment_update", "comment_delete"}
           /\ resp'.cid \in DOMAIN comments
           /\ comments[resp'.cid].author # resp'.user)
          => /\ comments' = comments
             /\ resp'.view = "comment_update"
                  => (resp'.status = "redirect_detail" /\ resp'.to = comments[resp'.cid].post)
             /\ resp'.view = "comment_delete" => resp'.status = "forbidden"
       /\ (resp'.view \in {"comment_update", "comment_delete"} /\ resp'.cid \notin DOMAIN comments)
          => comments' = comments
       /\ \A c \in DOMAIN comments :
            (c \notin DOMAIN comments' \/ comments'[c] # comments[c])
            => /\ resp'.view \in {"comment_update", "comment_delete"}
               /\ resp'.cid = c
               /\ resp'.user = comments[c].author]_vars

\* C2 witness: a logged-in user who is not the comment's author has posted an
\* edit form under the URL of another post, and was sent to the page of the
\* post the comment belongs to.
C2_Witness ==
    /\ resp.view = "comment_update"
    /\ resp.method = "POST"
    /\ resp.valid
    /\ resp.cid \in DOMAIN comments
    /\ IsAuthenticated(resp.user)
    /\ comments[resp.cid].author # resp.user
    /\ resp.pid # comments[resp.cid].post
    /\ resp.status = "redirect_detail"
    /\ resp.to = comments[resp.cid].post

\* C3: the detail view of a missing post is not-found; that of an existing
\* post answers its author with the post;
\* it answers anyone else with the post exactly when the post is published,
\* its category is published and its date is not later than now, and with
\* not-found otherwise.
C3_DetailVisibility ==
    resp.view = "detail"
    => IF resp.pid \notin DOMAIN posts
         THEN resp.status = "not_found"
       ELSE IF posts[resp.pid].author = resp.user
         THEN resp.status = "ok" /\ resp.to = resp.pid
       ELSE IF /\ posts[resp.pid].is_published
               /\ CategoryIsPublished[posts[resp.pid].category]
               /\ posts[resp.pid].pub_date <= now
         THEN resp.status = "ok" /\ resp.to = resp.pid
       ELSE resp.status = "not_found"

\* C3 witness: someone other than the author was shown a published post of a
\* published category that is dated exactly now.
C3_Witness ==
    /\ resp.view = "detail"
    /\ resp.pid \in DOMAIN posts
    /\ posts[resp.pid].author # resp.user
    /\ posts[resp.pid].pub_date = now
    /\ resp.status = "ok"

\* C4: after a post deletion that succeeded, by whichever HTTP method, the
\* post is gone, none of its comments is left and the cache is empty.
C4_DeleteClearsCache ==
    (resp.view = "post_delete" /\ resp.status = "redirect_index")
    => /\ resp.pid \notin DOMAIN posts
       /\ PostComments(resp.pid) = {}
       /\ cache = {}

\* C5: the index page lists exactly the posts that are public at the time of
\* the request, newest first.
C5_IndexListsPublicNow ==
    resp.view = "index"
    => /\ Listed(resp.list) = {p \in DOMAIN posts : PublicAt(p, now)}
       /\ NoRepeats(resp.list)
       /\ NewestFirst(resp.list)

\* C6: the profile page of an unknown username is not-found; the page of user
\* U lists each of U's posts once when U asks, and exactly U's posts that are
\* public at the time of the request when anyone else asks.
C6_ProfileListing ==
    resp.view = "profile"
    => IF resp.username \notin Users
         THEN resp.status = "not_found"
       ELSE /\ resp.status = "ok"
            /\ NoRepeats(resp.list)
            /\ Listed(resp.list) =
                 IF resp.user = resp.username
                   THEN {p \in DOMAIN posts : posts[p].author = resp.username}
                   ELSE {p \in DOMAIN posts :
                           posts[p].author = resp.username /\ PublicAt(p, now)}

\* C6 witness: user U was shown the own profile page with a post on it that
\* is not public.
C6_Witness ==
    /\ resp.view = "profile"
    /\ resp.user = resp.username
    /\ resp.status = "ok"
    /\ \E p \in Listed(resp.list) : ~PublicAt(p, now)

\* C7: add_comment by a logged-in user on a missing post is not-found and
\* creates nothing; on an existing post it answers with a redirect to that
\* post's page, changes no post and no existing comment, and creates one
\* comment (author the requester, post the one of the URL) when the form is
\* valid and none when it is not.
C7_AddComment ==
    [][(resp'.view = "add_comment" /\ IsAuthenticated(resp'.user))
       => IF resp'.pid \notin DOMAIN posts
            THEN /\ resp'.status = "not_found"
                 /\ comments' = comments
                 /\ posts' = posts
          ELSE /\ resp'.status = "redirect_detail"
               /\ resp'.to = resp'.pid
               /\ posts' = posts
               /\ \A c \in DOMAIN comments : c \in DOMAIN comments' /\ comments'[c] = comments[c]
               /\ IF resp'.valid
                    THEN /\ Cardinality(DOMAIN comments') = Cardinality(DOMAIN comments) + 1
                         /\ \A c \in (DOMAIN comments') \ (DOMAIN comments) :
                              /\ comments'[c].author = resp'.user
                              /\ comments'[c].post = resp'.pid
                    ELSE comments' = comments]_vars

\* C7 witness: a valid comment form was saved on a post of another author
\* while another comment was already stored.
C7_Witness ==
    /\ resp.view = "add_comment"
    /\ resp.valid
    /\ resp.status = "redirect_detail"
    /\ resp.cid \in DOMAIN comments
    /\ comments[resp.cid].author = resp.user
    /\ posts[resp.pid].author # resp.user
    /\ Cardinality(DOMAIN comments) = 2

\* C8: an anonymous request to create, edit or delete a post, to add, edit or
\* delete a comment or to edit a profile, naming a post or comment that
\* exists where it names one, is answered with the redirect to the login
\* page.
C8_AnonymousSentToLogin ==
    (/\ resp.user = AnonymousUser
     /\ resp.view \in {"post_create", "post_update", "post_delete", "add_comment",
                       "comment_update", "comment_delete", "profile_update"}
     /\ resp.view \in {"post_update", "post_delete", "add_comment"} => resp.pid \in DOMAIN posts
     /\ resp.view \in {"comment_update", "comment_delete"} => resp.cid \in DOMAIN comments)
    => resp.status = "redirect_login"

====
